---- MODULE Spec2Model ----
(***************************************************************************)
(* NodeLanguageServerProxy (src/client/activation/node/                    *)
(* languageServerProxy.ts): the lifecycle of one language-server session.  *)
(*                                                                         *)
(* start() is an async function: it runs synchronously between its await   *)
(* points, so every action below is one synchronous stretch of start(),    *)
(* serverReady() or registerTestServices(), or one whole dispose() (which  *)
(* has no await point).  Other start() calls, dispose() and the server's   *)
(* own initialization interleave only between those stretches.             *)
(*                                                                         *)
(* ExportManagerDependencyChecker (src/client/datascience/export/          *)
(* exportManagerDependencyChecker.ts) is modelled beside it, with its own  *)
(* variable and its own specification ExportSpec.                          *)
(***************************************************************************)
EXTENDS Naturals, Sequences, FiniteSets

\* ---------------------------------------------------------------- bounds
MaxCalls == 2        \* start() invocations in flight at the same time
MaxSessions == 2     \* start() invocations that take the no-client branch
MaxDisposes == 2     \* dispose() invocations over the proxy's lifetime
MaxPolls == 2        \* sleeps of one serverReady() that are counted
MaxExports == 2      \* export() invocations of the dependency checker

Calls == 1..MaxCalls

VARIABLES
    languageClient,        \* this.languageClient: 0 (undefined) or a client id
    cancellationStrategy,  \* this.cancellationStrategy: 0 (undefined) or a strategy id
    disposables,           \* this.disposables: a sequence of subscription kinds
    disposed,              \* this.disposed
    startupCompleted,      \* this.startupCompleted: the id of the current gate
    gates,                 \* every Deferred created so far: its promise's state
    clients,               \* every client the factory returned
    strategies,            \* every FileBasedCancellationStrategy constructed
    inExperiment,          \* experiments.inExperiment(DeprecatePythonPath.experiment)
    downloadLanguageServer,\* configurationService.getSettings(..).downloadLanguageServer
    calls,                 \* every start() invocation: where it is suspended, its locals
    wired,                 \* history: how often each subsidiary feature was wired
    nDisposes,             \* history: number of dispose() invocations
    sinceDispose,          \* history: "none" before any dispose(); "clean" / "threw"
                           \* after a dispose() that returned / threw; "started"
                           \* once a start() was invoked after it
    lateStart,             \* history: a start() was invoked after another had settled
    exports                \* every ExportManagerDependencyChecker.export() invocation

vars == <<languageClient, cancellationStrategy, disposables, disposed,
          startupCompleted, gates, clients, strategies,
          inExperiment, downloadLanguageServer, calls, wired, nDisposes,
          sinceDispose, lateStart>>

Wirings == {"progress", "pathsub", "telemetry", "test"}

\* ------------------------------------------------ the Deferred (readiness gate)
\* createDeferred<void>(): a fresh pending promise.
createDeferred == "pending"

\* Deferred.completed: the promise has been resolved or rejected.
completed(g) == g # "pending"

\* Deferred.resolve(): settles a pending promise; one-shot.
resolve(g) == IF g = "pending" THEN "resolved" ELSE g

\* Deferred.reject(): settles a pending promise; one-shot.
reject(g) == IF g = "pending" THEN "rejected" ELSE g

\* ------------------------------------------------------------ start() locals
\* One record per start() in flight; a record whose call has settled shows the
\* outcome until the next start() invocation takes it over.
\* pc: where the call is suspended, or how it settled.  strat: the strategy put
\* into its options (line 94).  awaits, joined: the gate it awaits on line 134
\* and the client handle it found.  mark (history): 1 once a dispose() was
\* invoked while the call was in flight, 2 once one was invoked while it was
\* in serverReady()'s loop, 3 once one was invoked while it was awaiting a
\* gate that was pending.  test (history): what became of its
\* registerTestServices(): "noclient" when line 158 threw, "ok" / "rejected"
\* when activate() resolved / rejected.
\* polls: the sleeps of its serverReady() that ended with the loop condition
\* still true, counted up to MaxPolls.  late (history): it took the no-client branch after a dispose().
NoCall == [pc |-> "idle", strat |-> 0, awaits |-> 0, joined |-> 0, mark |-> 0,
           test |-> "none", polls |-> 0, late |-> FALSE]

\* A call that has settled keeps its outcome and its history only.
Settle(call, outcome) ==
    [NoCall EXCEPT !.pc = outcome, !.mark = call.mark, !.test = call.test]

\* createLanguageClient is invoked once per strategy constructed (lines 93-96).
factoryCalls == Len(strategies)

\* The start() invocations that took the no-client branch so far.
Sessions == Len(strategies) + Cardinality({i \in Calls : calls[i].pc = "dir"})

Settled(i) == calls[i].pc \in {"resolved", "rejected"}
InFlight(i) == calls[i].pc \notin {"idle", "resolved", "rejected"}

\* ExportManagerDependencyChecker (src/client/datascience/export/
\* exportManagerDependencyChecker.ts) is a separate object: its export() calls
\* share nothing with the proxy.
ExportCalls == 1..MaxExports

\* The formats a caller passes to export().
ExportFormats == {"pdf", "html"}

\* One record per export() invocation.  pc: where it is suspended, or how it
\* settled.  format: its argument.  checks, last: how many isImportSupported()
\* calls of it have returned, and what the latest returned.  first: what the
\* first of them returned.  installs: its calls of installMissingDependencies().
\* delegated: the formats it passed to the wrapped manager's export().
NoExport == [pc |-> "idle", format |-> "none", checks |-> 0, first |-> "none",
             last |-> "none", installs |-> 0, delegated |-> <<>>]

Init ==
    /\ languageClient = 0
    /\ cancellationStrategy = 0
    /\ disposables = <<>>
    /\ disposed = FALSE
    /\ startupCompleted = 1
    /\ gates = <<createDeferred>>
    /\ clients = <<>>
    /\ strategies = <<>>
    /\ inExperiment \in BOOLEAN
    /\ downloadLanguageServer \in BOOLEAN
    /\ calls = [i \in Calls |-> NoCall]
    /\ wired = [w \in Wirings |-> 0]
    /\ nDisposes = 0
    /\ sinceDispose = "none"
    /\ lateStart = FALSE
    /\ exports = [e \in ExportCalls |-> NoExport]

\* ------------------------------------------------------------------ dispose()
\* The proxy's own fields, as one value dispose() works on.
Proxy ==
    [languageClient |-> languageClient,
     cancellationStrategy |-> cancellationStrategy,
     disposables |-> disposables,
     disposed |-> disposed,
     startupCompleted |-> startupCompleted,
     gates |-> gates]

\* The releases dispose() may meet: 0 when no d.dispose() throws, j when the
\* release of the j-th entry of the list throws.
ThrowPoints(p) == 0..Len(p.disposables)

\* Lines 56-64: stop the client and dispose the cancellation strategy, clearing both.
DisposeHandles(p) ==
    [p EXCEPT !.languageClient = 0, !.cancellationStrategy = 0]

\* Lines 65-68: the drain.  shift() removes an entry before its dispose() runs,
\* and nothing catches a dispose() that throws: the entries behind it stay.
DisposeDrain(p, throwAt) ==
    [p EXCEPT !.disposables =
        IF throwAt = 0 THEN <<>> ELSE SubSeq(@, throwAt + 1, Len(@))]

\* Lines 69-72: a completed gate is rejected (a no-op on a settled promise) and
\* replaced by a fresh one; a pending gate is left as it is.
DisposeGate(p) ==
    IF completed(p.gates[p.startupCompleted])
    THEN [p EXCEPT !.gates = Append([@ EXCEPT ![p.startupCompleted] = reject(@)],
                                    createDeferred),
                   !.startupCompleted = Len(p.gates) + 1]
    ELSE p

\* Line 73.
DisposeFlag(p) == [p EXCEPT !.disposed = TRUE]

\* dispose() as a function of the proxy's fields: the fields it leaves, whether
\* it threw, and what it released (the client stopped, the strategy disposed,
\* the list entries whose dispose() was called).
DisposeOn(p, throwAt) ==
    LET drained == DisposeDrain(DisposeHandles(p), throwAt) IN
    [proxy |-> IF throwAt = 0 THEN DisposeFlag(DisposeGate(drained)) ELSE drained,
     threw |-> throwAt # 0,
     stopped |-> p.languageClient,
     strategy |-> p.cancellationStrategy,
     released |-> IF throwAt = 0 THEN p.disposables
                  ELSE SubSeq(p.disposables, 1, throwAt)]

Dispose ==
    /\ nDisposes < MaxDisposes
    /\ \E throwAt \in ThrowPoints(Proxy) :
         LET r == DisposeOn(Proxy, throwAt) IN
         /\ languageClient' = r.proxy.languageClient
         /\ cancellationStrategy' = r.proxy.cancellationStrategy
         /\ disposables' = r.proxy.disposables
         /\ disposed' = r.proxy.disposed
         /\ startupCompleted' = r.proxy.startupCompleted
         /\ gates' = r.proxy.gates
         /\ clients' = [c \in DOMAIN clients |->
                          IF c = r.stopped THEN [clients[c] EXCEPT !.stopped = TRUE]
                          ELSE clients[c]]
         /\ strategies' = [s \in DOMAIN strategies |->
                             IF s = r.strategy THEN "disposed" ELSE strategies[s]]
         /\ sinceDispose' = IF r.threw THEN "threw" ELSE "clean"
    /\ calls' = [i \in Calls |->
                   [calls[i] EXCEPT
                      !.mark = IF calls[i].pc = "poll" THEN 2
                               ELSE IF /\ calls[i].pc = "gate"
                                       /\ gates[calls[i].awaits] = "pending"
                                    THEN 3
                               ELSE IF InFlight(i) /\ @ = 0 THEN 1 ELSE @]]
    /\ nDisposes' = nDisposes + 1
    /\ UNCHANGED <<wired, lateStart, inExperiment, downloadLanguageServer>>
    /\ UNCHANGED exports

\* -------------------------------------------------------------------- start()
\* start() opening a session whether or not a client handle is set.
StartBranchIgnoresHandle(lc) == "dir"

\* Line 89: the branch start() takes on the client handle it finds.
StartBranch(lc) == IF lc = 0 THEN "dir" ELSE "gate"

\* Line 89, up to the first await: with no client, ask the folder service for
\* the directory (line 90); with a client, await the current gate (line 134).
\* The invocation takes the first record that holds no call in flight (which
\* record it is makes no difference), and callers stop opening sessions at
\* MaxSessions.
StartEnter(i) ==
    /\ ~InFlight(i)
    /\ \A j \in Calls : j < i => InFlight(j)
    /\ languageClient = 0 => Sessions < MaxSessions
    /\ calls' = [calls EXCEPT ![i] =
         [NoCall EXCEPT !.pc = StartBranch(languageClient),
                        !.awaits = IF languageClient = 0 THEN 0 ELSE startupCompleted,
                        !.joined = languageClient,
                        !.late = (languageClient = 0 /\ nDisposes > 0)]]
    /\ sinceDispose' = IF sinceDispose = "none" THEN "none" ELSE "started"
    /\ lateStart' = (lateStart \/ \E j \in Calls : Settled(j))
    /\ UNCHANGED <<languageClient, cancellationStrategy, disposables, disposed,
                   startupCompleted, gates, clients, strategies, wired, nDisposes,
                   inExperiment, downloadLanguageServer>>
    /\ UNCHANGED exports

\* Lines 91-96: the directory is known; construct the cancellation strategy,
\* put it into the options and call the factory with them.
StartAfterDirectory(i) ==
    /\ calls[i].pc = "dir"
    /\ strategies' = Append(strategies, "live")
    /\ cancellationStrategy' = Len(strategies) + 1
    /\ calls' = [calls EXCEPT ![i] =
         [@ EXCEPT !.pc = "factory", !.strat = Len(strategies) + 1]]
    /\ UNCHANGED <<languageClient, disposables, disposed, startupCompleted, gates,
                   clients, wired, nDisposes, sinceDispose, lateStart,
                   inExperiment, downloadLanguageServer>>
    /\ UNCHANGED exports

\* Line 96: createLanguageClient rejects, and start() with it.
StartFactoryRejects(i) ==
    /\ calls[i].pc = "factory"
    /\ calls' = [calls EXCEPT ![i] = Settle(@, "rejected")]
    /\ UNCHANGED <<languageClient, cancellationStrategy, disposables, disposed,
                   startupCompleted, gates, clients, strategies, wired,
                   nDisposes, sinceDispose, lateStart, inExperiment,
                   downloadLanguageServer>>
    /\ UNCHANGED exports

\* The condition of serverReady()'s loop (line 149).
StillStarting(lc, cs) == lc # 0 /\ ~cs[lc].init

\* Lines 96-98 and 149-150: the factory's client becomes the handle; its
\* start() either throws (start() rejects, the handle stays) or returns the
\* disposable that is recorded; then serverReady() tests its loop condition on
\* the client just created, which has no initializeResult yet, and sleeps.
StartAfterFactory(i) ==
    /\ calls[i].pc = "factory"
    /\ \E startThrows \in BOOLEAN :
         /\ clients' = Append(clients,
              [strategy |-> calls[i].strat, init |-> FALSE,
               failed |-> startThrows, stopped |-> FALSE,
               late |-> calls[i].late])
         /\ languageClient' = Len(clients) + 1
         /\ disposables' = IF startThrows THEN disposables
                           ELSE Append(disposables, "transport")
         /\ calls' = [calls EXCEPT ![i] =
              IF startThrows THEN Settle(@, "rejected")
              ELSE [@ EXCEPT !.pc = "poll", !.strat = 0, !.late = FALSE]]
    /\ UNCHANGED <<cancellationStrategy, disposed, startupCompleted, gates,
                   strategies, wired, nDisposes, sinceDispose, lateStart,
                   inExperiment, downloadLanguageServer>>
    /\ UNCHANGED exports

\* The server answers the initialize request of a client whose transport runs:
\* its initializeResult becomes present.  The proxy reads initializeResult of
\* the handle only (line 149), and a client that is no longer the handle never
\* becomes it again, so only the handle's initialization is modelled.
ServerInitialize(c) ==
    /\ c \in DOMAIN clients
    /\ c = languageClient
    /\ ~clients[c].failed /\ ~clients[c].stopped /\ ~clients[c].init
    /\ clients' = [clients EXCEPT ![c] = [@ EXCEPT !.init = TRUE]]
    /\ UNCHANGED <<languageClient, cancellationStrategy, disposables, disposed,
                   startupCompleted, gates, strategies, calls, wired,
                   nDisposes, sinceDispose, lateStart, inExperiment,
                   downloadLanguageServer>>
    /\ UNCHANGED exports

\* Lines 149-150: sleep(100) is over and the loop condition still holds:
\* serverReady() sleeps again (the sleeps are counted up to MaxPolls).
ServerReadyPoll(i) ==
    /\ calls[i].pc = "poll"
    /\ StillStarting(languageClient, clients)
    /\ calls' = [calls EXCEPT ![i] =
         [@ EXCEPT !.polls = IF @ < MaxPolls THEN @ + 1 ELSE @]]
    /\ UNCHANGED <<languageClient, cancellationStrategy, disposables, disposed,
                   startupCompleted, gates, clients, strategies, wired,
                   nDisposes, sinceDispose, lateStart, inExperiment,
                   downloadLanguageServer>>
    /\ UNCHANGED exports

\* serverReady() returning without resolving the gate.
ServerReadyForgetsResolve(gs, sc) == gs

\* Line 152.
ServerReadyResolve(gs, sc) == [gs EXCEPT ![sc] = resolve(@)]

\* serverReady() resolving the gate inside its loop and sleeping on.
ServerReadyResolvesInLoop(call) == call

\* Lines 149-153: the call once the loop condition has failed and line 152 has
\* run: serverReady() has returned, and start() resumes after line 98.
ServerReadyReturns(call) == [call EXCEPT !.pc = "ready"]

\* Lines 149 and 152: sleep(100) is over and the loop condition fails (no
\* client handle, or the handle's initializeResult is present): the current
\* gate is resolved and serverReady() returns.
ServerReadyDone(i) ==
    /\ calls[i].pc = "poll"
    /\ ~StillStarting(languageClient, clients)
    /\ gates' = ServerReadyResolve(gates, startupCompleted)
    /\ calls' = [calls EXCEPT ![i] = ServerReadyReturns(@)]
    /\ UNCHANGED <<languageClient, cancellationStrategy, disposables, disposed,
                   startupCompleted, clients, strategies, wired,
                   nDisposes, sinceDispose, lateStart, inExperiment,
                   downloadLanguageServer>>
    /\ UNCHANGED exports

\* start() without the check of line 99.
DisposedNeverChecked(d) == FALSE

\* Line 99: the check made when start() resumes after serverReady().
DisposedInTheInterim(d) == d

\* Lines 103-132 as a function of the client handle and the two settings read:
\* what is wired, what is pushed on the list, and whether start() throws.
\* ProgressReporting is constructed on the handle (progressOk: its constructor
\* returns); onTelemetry is called on the handle, a TypeError when it is
\* undefined; registerTestServices() throws inside its own promise when the
\* handle is undefined, which swallowExceptions catches.
Wire(lc, experiment, download, progressOk) ==
    LET subs == IF experiment THEN <<"progress", "pathsub">> ELSE <<"progress">>
        w1 == IF experiment THEN {"progress", "pathsub"} ELSE {"progress"}
        w2 == IF download THEN w1 \cup {"telemetry"} ELSE w1 IN
    IF ~progressOk THEN [wired |-> {}, pushed |-> <<>>, throws |-> TRUE]
    ELSE IF download /\ lc = 0
    THEN [wired |-> w1, pushed |-> subs, throws |-> TRUE]
    ELSE [wired |-> IF lc = 0 THEN w2 ELSE w2 \cup {"test"},
          pushed |-> subs, throws |-> FALSE]

\* Lines 99-132: start() resumes after serverReady().
StartAfterReady(i) ==
    /\ calls[i].pc = "ready"
    /\ IF DisposedInTheInterim(disposed)
       THEN /\ calls' = [calls EXCEPT ![i] = Settle(@, "resolved")]
            /\ UNCHANGED <<disposables, wired>>
       ELSE \E progressOk \in (IF languageClient = 0 THEN BOOLEAN ELSE {TRUE}) :
              LET w == Wire(languageClient, inExperiment, downloadLanguageServer,
                            progressOk) IN
              /\ disposables' = disposables \o w.pushed
              /\ wired' = [k \in Wirings |->
                              IF k \in w.wired THEN wired[k] + 1 ELSE wired[k]]
              /\ calls' = [calls EXCEPT ![i] =
                   IF w.throws THEN Settle(@, "rejected")
                   ELSE [@ EXCEPT !.pc = "testreg",
                                  !.test = IF languageClient = 0 THEN "noclient"
                                           ELSE "none"]]
    /\ UNCHANGED <<languageClient, cancellationStrategy, disposed, startupCompleted,
                   gates, clients, strategies, nDisposes, sinceDispose, lateStart,
                   inExperiment, downloadLanguageServer>>
    /\ UNCHANGED exports

\* The swallowExceptions decorator: the promise it hands to the caller resolves
\* whatever the decorated method's promise did (a rejection is caught and logged).
swallowExceptions(outcome) == "resolved"

\* registerTestServices() without its decorator.
RegisterTestServicesUndecorated(body) == body

\* Lines 155-161: the promise registerTestServices() returns, given what its
\* body did ("rejected": line 158 threw, or activate() rejected).
registerTestServices(body) == swallowExceptions(body)

\* Lines 132 and 155-161: the promise of registerTestServices() settles (its
\* body threw on line 158, or activate() resolved or rejected), and start()
\* ends with it.
RegisterTestServicesReturns(i) ==
    /\ calls[i].pc = "testreg"
    /\ \E activate \in (IF calls[i].test = "noclient" THEN {"noclient"}
                         ELSE {"ok", "rejected"}) :
         calls' = [calls EXCEPT ![i] =
            Settle([@ EXCEPT !.test = activate],
                   registerTestServices(IF activate = "ok" THEN "resolved"
                                        ELSE "rejected"))]
    /\ UNCHANGED <<languageClient, cancellationStrategy, disposables, disposed,
                   startupCompleted, gates, clients, strategies, wired,
                   nDisposes, sinceDispose, lateStart, inExperiment,
                   downloadLanguageServer>>
    /\ UNCHANGED exports

\* Line 134: the awaited gate has settled and start() resumes with its outcome.
StartAfterGate(i) ==
    /\ calls[i].pc = "gate"
    /\ completed(gates[calls[i].awaits])
    /\ calls' = [calls EXCEPT ![i] = Settle(@, gates[calls[i].awaits])]
    /\ UNCHANGED <<languageClient, cancellationStrategy, disposables, disposed,
                   startupCompleted, gates, clients, strategies, wired,
                   nDisposes, sinceDispose, lateStart, inExperiment,
                   downloadLanguageServer>>
    /\ UNCHANGED exports

Step(i) ==
    \/ StartAfterDirectory(i)
    \/ StartFactoryRejects(i)
    \/ StartAfterFactory(i)
    \/ ServerReadyPoll(i)
    \/ ServerReadyDone(i)
    \/ StartAfterReady(i)
    \/ RegisterTestServicesReturns(i)
    \/ StartAfterGate(i)

Next ==
    \/ Dispose
    \/ \E i \in Calls : StartEnter(i)
    \/ \E i \in Calls : Step(i)
    \/ \E c \in 1..MaxSessions : ServerInitialize(c)

Spec == Init /\ [][Next]_vars

\* The scheduler runs every continuation that is ready: a timer that fired, a
\* settled promise's reaction, a collaborator's answer.  Nothing obliges a
\* caller to call start() or dispose(), nor the server to initialize.
FairSpec == Spec /\ \A i \in Calls : WF_vars(Step(i))

\* ------------------------------------- ExportManagerDependencyChecker.export()
\* The proxy's variables, which export() never touches.
proxyVars == vars

\* Line 17, up to the first await: export(format, model) calls
\* isImportSupported() (line 19).
ExportEnter(e) ==
    /\ exports[e].pc = "idle"
    /\ \A d \in ExportCalls : d < e => exports[d].pc # "idle"
    /\ \E format \in ExportFormats :
         exports' = [exports EXCEPT ![e] =
            [NoExport EXCEPT !.pc = "check1", !.format = format]]
    /\ UNCHANGED proxyVars

\* An await of export() rejects (isImportSupported, installMissingDependencies
\* or the manager's export): nothing catches it, export() rejects with it.
ExportAwaitRejects(e) ==
    /\ exports[e].pc \in {"check1", "install", "check2", "manager"}
    /\ exports' = [exports EXCEPT ![e] = [@ EXCEPT !.pc = "rejected"]]
    /\ UNCHANGED proxyVars

\* Lines 19-20: the first isImportSupported() returns; when it says no,
\* installMissingDependencies() is called, otherwise the second
\* isImportSupported() (line 23).
ExportFirstCheck(e) ==
    /\ exports[e].pc = "check1"
    /\ \E supported \in BOOLEAN :
         exports' = [exports EXCEPT ![e] =
            [@ EXCEPT !.checks = @ + 1,
                      !.first = IF supported THEN "yes" ELSE "no",
                      !.last = IF supported THEN "yes" ELSE "no",
                      !.installs = IF supported THEN @ ELSE @ + 1,
                      !.pc = IF supported THEN "check2" ELSE "install"]]
    /\ UNCHANGED proxyVars

\* Lines 20 and 23: installMissingDependencies() returns, and the second
\* isImportSupported() is called.
ExportAfterInstall(e) ==
    /\ exports[e].pc = "install"
    /\ exports' = [exports EXCEPT ![e] = [@ EXCEPT !.pc = "check2"]]
    /\ UNCHANGED proxyVars

\* export() handing the notebook to the manager without looking at the check.
ExportDelegatesUnchecked(supported) == TRUE

\* Line 23: the branch taken on the second isImportSupported().
ExportDelegates(supported) == supported

\* Lines 23-27: the second isImportSupported() returns; export() calls the
\* wrapped manager's export(format, model), or throws the not-supported error.
ExportSecondCheck(e) ==
    /\ exports[e].pc = "check2"
    /\ \E supported \in BOOLEAN :
         exports' = [exports EXCEPT ![e] =
            IF ExportDelegates(supported)
            THEN [@ EXCEPT !.checks = @ + 1,
                           !.last = IF supported THEN "yes" ELSE "no",
                           !.delegated = Append(@, exports[e].format),
                           !.pc = "manager"]
            ELSE [@ EXCEPT !.checks = @ + 1,
                           !.last = IF supported THEN "yes" ELSE "no",
                           !.pc = "unsupported"]]
    /\ UNCHANGED proxyVars

\* Line 24: the manager's export() resolves, and export() with it.
ExportManagerReturns(e) ==
    /\ exports[e].pc = "manager"
    /\ exports' = [exports EXCEPT ![e] = [@ EXCEPT !.pc = "resolved"]]
    /\ UNCHANGED proxyVars

ExportNext ==
    \E e \in ExportCalls :
        \/ ExportEnter(e)
        \/ ExportAwaitRejects(e)
        \/ ExportFirstCheck(e)
        \/ ExportAfterInstall(e)
        \/ ExportSecondCheck(e)
        \/ ExportManagerReturns(e)

\* The export calls on their own, beside a proxy that nobody uses.
ExportInit == Init /\ ~inExperiment /\ ~downloadLanguageServer

ExportSpec == ExportInit /\ [][ExportNext]_<<vars, exports>>

\* ===================================================================== claims
NothingWired == \A k \in Wirings : wired[k] = 0

\* C1: N >= 2 start() calls issued on a fresh proxy before the first one
\* completes invoke the client factory exactly once, and none of them resolves
\* before the readiness gate has resolved.  (Stated for runs without dispose().)
C1_SingleSession ==
    (~lateStart /\ nDisposes = 0) =>
        /\ factoryCalls <= 1
        /\ \A i \in Calls : calls[i].pc = "resolved" => gates[1] = "resolved"

\* C2: a start() that was in serverReady()'s loop when dispose() was invoked
\* wires nothing from then on, and the client handle is unset when it returns.
C2_DisposeDuringPoll ==
    [][\A i \in Calls :
         /\ (calls[i].mark = 2 /\ calls'[i] # calls[i]) => wired' = wired
         /\ (calls[i].mark = 2 /\ InFlight(i) /\ ~InFlight(i)') =>
                languageClient' = 0]_vars

\* C3: a start() that awaits the gate of an attempt whose transport start()
\* threw does not resolve successfully: when it settles, it rejects.
C3_FailedAttemptRejects ==
    [][\A i \in Calls :
         (/\ calls[i].pc = "gate"
          /\ clients[calls[i].joined].failed
          /\ Settled(i)') => calls'[i].pc = "rejected"]_vars

\* C4: the start() that follows a completed dispose() takes the no-client
\* branch: it invokes the factory again instead of awaiting the gate.
C4_RestartCreatesClient ==
    [][(/\ sinceDispose = "clean"
        /\ \E i \in Calls : ~InFlight(i) /\ InFlight(i)') =>
           \E i \in Calls : ~InFlight(i) /\ calls'[i].pc = "dir"]_vars

\* C5: every start() that was in flight when dispose() was invoked eventually
\* settles.
C5_NoPendingWaiters ==
    \A i \in Calls : (calls[i].mark >= 1 /\ InFlight(i)) ~> ~InFlight(i)

\* C6: once dispose() has returned, no start() was invoked since and none is in
\* flight any more, the client handle and the cancellation-strategy handle are
\* unset and the subscription list is empty.
C6_NoDanglingHandles ==
    (sinceDispose = "clean" /\ \A i \in Calls : ~InFlight(i)) =>
        /\ languageClient = 0
        /\ cancellationStrategy = 0
        /\ disposables = <<>>

\* C7: once the disposed flag is set, no step of any start() wires a
\* subsidiary feature.
C7_NoWiringOnceDisposed == [][disposed => wired' = wired]_vars

\* C7 witness: dispose() has set the flag while a start() was in
\* serverReady()'s loop, and that start() has returned with nothing wired.
C7_Witness ==
    /\ disposed
    /\ NothingWired
    /\ \E i \in Calls : calls[i].pc = "resolved" /\ calls[i].mark = 2

\* C8: a gate is resolved only at a moment when a client handle is set and that
\* client's initializeResult is present.
C8_ResolvedMeansInitialized ==
    [][(\E g \in DOMAIN gates : gates[g] = "pending" /\ gates'[g] = "resolved") =>
          (languageClient # 0 /\ clients[languageClient].init)]_vars

\* C9: a subsidiary feature is wired only when the current readiness gate has
\* been resolved.
C9_WiringAfterGate ==
    [][wired' # wired => gates[startupCompleted] = "resolved"]_vars

\* C9 witness: every subsidiary feature has been wired, and a dispose() has
\* been invoked (one whose drain threw, so that the flag stayed unset).
C9_Witness ==
    /\ \A k \in Wirings : wired[k] > 0
    /\ gates[startupCompleted] = "resolved"
    /\ nDisposes > 0

\* C10: from every reachable state, a second dispose() right after a first one
\* changes nothing, releases nothing and does not throw.
C10_DisposeIdempotent ==
    \A t1 \in ThrowPoints(Proxy) :
        LET r1 == DisposeOn(Proxy, t1) IN
        \A t2 \in ThrowPoints(r1.proxy) :
            LET r2 == DisposeOn(r1.proxy, t2) IN
            /\ ~r2.threw
            /\ r2.proxy = r1.proxy
            /\ r2.stopped = 0 /\ r2.strategy = 0 /\ r2.released = <<>>

\* C11: when activate() rejects, start() resolves all the same, and that step
\* leaves the wiring and the subscription list as they are.
C11_ActivateRejectionSwallowed ==
    [][\A i \in Calls :
         (/\ calls[i].pc = "testreg"
          /\ Settled(i)'
          /\ calls'[i].test = "rejected") =>
             /\ calls'[i].pc = "resolved"
             /\ wired' = wired
             /\ disposables' = disposables]_vars

\* C11 witness: a start() whose activate() rejected has resolved, with the
\* progress reporting it registered still on the list.
C11_Witness ==
    /\ \E i \in Calls : calls[i].pc = "resolved" /\ calls[i].test = "rejected"
    /\ \E k \in DOMAIN disposables : disposables[k] = "progress"
    /\ wired["test"] > 0

\* C12: serverReady() leaves its loop only when the loop condition has failed,
\* resolves the current gate in that very step and in no other step of the
\* call, and the call never sleeps in the loop again.
C12_ServerReadyTerminates ==
    [][\A i \in Calls :
         /\ (calls[i].pc = "poll" /\ gates' # gates /\ nDisposes' = nDisposes
             /\ \A j \in Calls \ {i} : calls'[j] = calls[j]) =>
               calls'[i].pc = "ready"
         /\ (calls[i].pc = "poll" /\ calls'[i].pc # "poll") =>
               /\ ~StillStarting(languageClient, clients)
               /\ calls'[i].pc = "ready"
               /\ calls'[i].polls = calls[i].polls
               /\ gates' = [gates EXCEPT ![startupCompleted] = resolve(@)]
         /\ (/\ calls[i].pc = "poll" /\ calls'[i].pc = "poll"
             /\ calls'[i].polls # calls[i].polls) =>
               /\ StillStarting(languageClient, clients)
               /\ calls'[i].polls = calls[i].polls + 1
               /\ gates' = gates
         /\ calls[i].pc \in {"ready", "testreg"} =>
               /\ calls'[i].pc # "poll"
               /\ calls'[i].pc = "ready" => calls'[i].polls = calls[i].polls
               /\ (calls'[i] # calls[i] /\ nDisposes' = nDisposes) =>
                     gates' = gates]_vars

\* C12 witness: a serverReady() has returned after MaxPolls sleeps (or more)
\* that found no initializeResult, the handle's initializeResult is present, the gate is
\* resolved.
C12_Witness ==
    \E i \in Calls :
        /\ calls[i].pc = "ready"
        /\ calls[i].polls = MaxPolls
        /\ languageClient # 0
        /\ clients[languageClient].init
        /\ gates[startupCompleted] = "resolved"

\* C13: whichever release throws, dispose() calls the dispose() of every entry
\* of the list in order, leaves the list empty and sets the disposed flag.
C13_DrainAttemptsEveryRelease ==
    \A throwAt \in ThrowPoints(Proxy) :
        LET r == DisposeOn(Proxy, throwAt) IN
        /\ r.released = disposables
        /\ r.proxy.disposables = <<>>
        /\ r.proxy.disposed

\* C14: a start() that was awaiting a pending gate when dispose() ran ends
\* rejected, and a gate that has resolved stays resolved.
C14_DisposeRejectsPendingWaiters ==
    [][/\ \A i \in Calls :
            (calls[i].pc = "gate" /\ calls[i].mark = 3 /\ Settled(i)') =>
                calls'[i].pc = "rejected"
       /\ \A g \in DOMAIN gates :
            gates[g] = "resolved" => gates'[g] = "resolved"]_vars

\* C15: a start() that found the handle of a client created by a start() issued
\* after a dispose(), and awaited the gate with no dispose() in the meantime,
\* returns normally only once that client's initializeResult is present.
C15_NoStaleReadySignal ==
    [][\A i \in Calls :
         (/\ calls[i].pc = "gate"
          /\ calls[i].mark = 0
          /\ clients[calls[i].joined].late
          /\ calls'[i].pc = "resolved") =>
             clients[calls[i].joined].init]_vars

\* C16: a dispose() that finds the current gate resolved makes a fresh pending
\* gate current and leaves the old gate resolved; a start() awaiting a resolved
\* gate ends resolved; there is always one current gate, and a gate that has
\* settled never changes again.
C16_GateReplacedOnDispose ==
    [][/\ (gates[startupCompleted] = "resolved" /\ nDisposes' = nDisposes + 1) =>
            /\ startupCompleted' # startupCompleted
            /\ gates'[startupCompleted'] = "pending"
            /\ gates'[startupCompleted] = "resolved"
       /\ \A i \in Calls :
            (/\ calls[i].pc = "gate"
             /\ gates[calls[i].awaits] = "resolved"
             /\ Settled(i)') => calls'[i].pc = "resolved"
       /\ startupCompleted' \in DOMAIN gates'
       /\ \A g \in DOMAIN gates :
            /\ g \in DOMAIN gates'
            /\ gates[g] # "pending" => gates'[g] = gates[g]]_vars

\* The session state of the proxy is left as it is: its fields, the clients
\* and strategies that exist, and the subsidiary features wired.
SessionStateUnchanged ==
    UNCHANGED <<languageClient, cancellationStrategy, disposables, disposed,
                startupCompleted, gates, clients, strategies, wired>>

\* C17: a start() invoked with the client handle set awaits the current gate
\* and changes no session state, neither when invoked nor when it resumes; it
\* resumes only once that gate has settled, and ends as the gate did.
C17_GatePathChangesNothing ==
    [][\A i \in Calls :
         /\ (~InFlight(i) /\ InFlight(i)' /\ languageClient # 0) =>
               /\ calls'[i].pc = "gate"
               /\ calls'[i].awaits = startupCompleted
               /\ SessionStateUnchanged
         /\ (/\ calls[i].pc = "gate" /\ calls'[i] # calls[i]
             /\ nDisposes' = nDisposes) =>
               /\ completed(gates[calls[i].awaits])
               /\ calls'[i].pc = gates[calls[i].awaits]
               /\ SessionStateUnchanged]_vars

\* C17 witness: a start() that found the handle set is about to return from
\* its await of the gate, which serverReady() has resolved for a client that
\* initialized.
C17_Witness ==
    \E i \in Calls :
        /\ calls[i].pc = "gate"
        /\ calls[i].joined = languageClient
        /\ languageClient # 0
        /\ clients[languageClient].init
        /\ calls[i].awaits = startupCompleted
        /\ gates[startupCompleted] = "resolved"

\* C18: a start() whose registerTestServices() ran with no client handle
\* (line 158 threw) ends rejected.
C18_NoClientIsHardFailure ==
    [][\A i \in Calls :
         (/\ calls[i].pc = "testreg"
          /\ calls[i].test = "noclient"
          /\ Settled(i)') => calls'[i].pc = "rejected"]_vars

\* C19: whenever the client handle is set, the cancellation-strategy handle is
\* set too, is the strategy that was put into that client's options, and is
\* not disposed; and once a dispose() has returned with no start() in flight
\* or invoked since, every strategy constructed has been disposed.
C19_OwnedHandlesConsistent ==
    /\ languageClient # 0 =>
          /\ cancellationStrategy # 0
          /\ cancellationStrategy = clients[languageClient].strategy
          /\ strategies[cancellationStrategy] = "live"
    /\ (sinceDispose = "clean" /\ \A i \in Calls : ~InFlight(i)) =>
          \A s \in DOMAIN strategies : strategies[s] = "disposed"

\* C20: an export() has called the wrapped manager's export() at most once,
\* with its own format, and only if its latest isImportSupported() said yes;
\* it has called installMissingDependencies() at most once, and only if its
\* first isImportSupported() said no; and when its second check said no it
\* has thrown the not-supported error and never called the manager.
C20_ExportOnlyWhenSupported ==
    \A e \in ExportCalls :
        LET x == exports[e] IN
        /\ Len(x.delegated) <= 1
        /\ x.delegated # <<>> =>
              /\ x.last = "yes"
              /\ x.checks = 2
              /\ x.delegated = <<x.format>>
        /\ x.installs <= 1
        /\ x.installs = 1 => x.first = "no"
        /\ (x.checks = 2 /\ x.last = "no") =>
              /\ x.pc = "unsupported"
              /\ x.delegated = <<>>

\* C20 witness: one export() found import unsupported, installed the
\* dependencies, found it supported and has returned what the manager
\* returned; another installed them, found import still unsupported and threw.
C20_Witness ==
    /\ \E e \in ExportCalls :
          /\ exports[e].pc = "resolved"
          /\ exports[e].first = "no"
          /\ exports[e].installs = 1
          /\ exports[e].last = "yes"
          /\ exports[e].delegated = <<exports[e].format>>
    /\ \E e \in ExportCalls :
          /\ exports[e].pc = "unsupported"
          /\ exports[e].installs = 1
          /\ exports[e].delegated = <<>>

====
